---- MODULE Spec2Model ----
(***************************************************************************)
(* Model of the Cognito Pre Token Generation V2_0 trigger                  *)
(* terraform/modules/cognito/lambda/pre_token_generation.py.               *)
(*                                                                         *)
(* Representation of the Python values:                                    *)
(*   - a dict is a record over the keys that occur in the model; the value *)
(*     of a key is <<>> when the key is not in the dict and <<v>> when the *)
(*     dict maps the key to v;                                             *)
(*   - None is the record None;                                            *)
(*   - a list is a sequence;                                               *)
(*   - a group name, a role string and a claim value are sequences of      *)
(*     one-character strings, so the empty string is <<>>;                 *)
(*   - user names and scope names are atoms (TLA+ strings).                *)
(***************************************************************************)
EXTENDS Integers, Sequences, FiniteSets, TLC

\* ------------------------------------------------------------------ bounds
MaxGroups == 2      \* longest groupsToOverride list that is enumerated
MaxCalls  == 2      \* how many times the caller invokes the trigger in a row

\* ------------------------------------------------------------ Python values
None == [isNone |-> TRUE]

IsNone(v) == "isNone" \in DOMAIN v

\* dict.get(k, default)
Get(d, k, default) == IF d[k] # <<>> THEN d[k][1] ELSE default

\* the dict {} read as a request section, a groupConfiguration section,
\* a claims mapping
EmptyRequest     == [groupConfiguration |-> <<>>, scopes |-> <<>>]
EmptyGroupConfig == [groupsToOverride |-> <<>>]
ClaimKeys        == {"custom:roles", "custom:tenant"}
EmptyClaims      == [k \in ClaimKeys |-> <<>>]

\* ------------------------------------------------------------------ inputs
GroupNames == {<<>>, <<"A">>, <<"B">>}

GroupLists == UNION {[1..n -> GroupNames] : n \in 0..MaxGroups}

UserNames == {<<>>, <<"alice">>}

ScopeOpts == {<<>>, << <<"openid", "email">> >>}

GroupConfigs == {[groupsToOverride |-> <<>>]}
                  \cup {[groupsToOverride |-> <<g>>] : g \in GroupLists}

Requests == {<<>>, <<None>>}
              \cup {<<[groupConfiguration |-> gc, scopes |-> sc]>> :
                      gc \in {<<>>, <<None>>} \cup {<<c>> : c \in GroupConfigs},
                      sc \in ScopeOpts}

\* the section as Cognito documents it (docstring, lines 43-46)
DefaultDetails ==
    [idTokenGeneration |->
        <<[claimsToAddOrOverride |-> <<EmptyClaims>>, claimsToSuppress |-> <<>>]>>,
     accessTokenGeneration |->
        <<[claimsToAddOrOverride |-> <<EmptyClaims>>,
           scopesToAdd |-> << <<>> >>, scopesToSuppress |-> << <<>> >>]>>,
     groupOverrideDetails |-> <<>>]

\* a section left by an earlier hook stage
StageClaims ==
    [k \in ClaimKeys |-> IF k = "custom:roles" THEN << <<"B">> >> ELSE << <<"T">> >>]

StageDetails ==
    [idTokenGeneration |->
        <<[claimsToAddOrOverride |-> <<StageClaims>>,
           claimsToSuppress |-> << <<"email">> >>]>>,
     accessTokenGeneration |->
        <<[claimsToAddOrOverride |-> <<[StageClaims EXCEPT !["custom:roles"] = <<>>]>>,
           scopesToAdd |-> << <<"admin">> >>,
           scopesToSuppress |-> << <<"email">> >>]>>,
     groupOverrideDetails |-> << <<"ROLE_ADMIN">> >>]

DetailsOpts == {<<>>, <<None>>, <<DefaultDetails>>, <<StageDetails>>}

Responses == {<<>>, <<None>>}
               \cup {<<[claimsAndScopeOverrideDetails |-> d, stage |-> s]>> :
                       d \in DetailsOpts, s \in {<<>>, <<"stage1">>}}

Events == {[userName |-> u, request |-> rq, response |-> rs] :
             u \in UserNames, rq \in Requests, rs \in Responses}

\* --------------------------------------------------- the handler's pieces
\* line 54: event.get("request", {}).get("groupConfiguration", {})
\*               .get("groupsToOverride", [])
\* .get on None raises AttributeError
RequestOf(ev) == Get(ev, "request", EmptyRequest)

GroupConfigOf(ev) == Get(RequestOf(ev), "groupConfiguration", EmptyGroupConfig)

ReadRaises(ev) ==
    IF IsNone(RequestOf(ev)) THEN TRUE ELSE IsNone(GroupConfigOf(ev))

GroupsOf(ev) == Get(GroupConfigOf(ev), "groupsToOverride", <<>>)

\* str.join with a ", " separator
RECURSIVE JoinSpaced(_, _)
JoinSpaced(sep, seq) ==
    IF seq = <<>> THEN <<>>
    ELSE IF Len(seq) = 1 THEN seq[1]
    ELSE seq[1] \o sep \o <<" ">> \o JoinSpaced(sep, Tail(seq))

\* str.join: the elements in order, sep between consecutive elements
RECURSIVE Join(_, _)
Join(sep, seq) ==
    IF seq = <<>> THEN <<>>
    ELSE IF Len(seq) = 1 THEN seq[1]
    ELSE seq[1] \o sep \o Join(sep, Tail(seq))

\* line 55: roles_claim = ",".join(groups) if groups else ""
RolesClaim(gs) == IF gs # <<>> THEN Join(<<",">>, gs) ELSE <<>>

\* claims_override["custom:roles"] = roles_claim without the test of line 61
ClaimsOverrideAlways(rc) == [EmptyClaims EXCEPT !["custom:roles"] = <<rc>>]

\* lines 60-62: claims_override = {}; if roles_claim: set custom:roles
ClaimsOverride(rc) ==
    IF rc # <<>> THEN [EmptyClaims EXCEPT !["custom:roles"] = <<rc>>]
    ELSE EmptyClaims

\* the section without scopesToSuppress
OverrideSectionShort(co) ==
    [idTokenGeneration |->
        <<[claimsToAddOrOverride |-> <<co>>, claimsToSuppress |-> <<>>]>>,
     accessTokenGeneration |->
        <<[claimsToAddOrOverride |-> <<co>>,
           scopesToAdd |-> << <<>> >>, scopesToSuppress |-> <<>>]>>,
     groupOverrideDetails |-> <<>>]

\* the section with the claims on the identity token only
OverrideSectionIdOnly(co) ==
    [idTokenGeneration |->
        <<[claimsToAddOrOverride |-> <<co>>, claimsToSuppress |-> <<>>]>>,
     accessTokenGeneration |->
        <<[claimsToAddOrOverride |-> <<EmptyClaims>>,
           scopesToAdd |-> << <<>> >>, scopesToSuppress |-> << <<>> >>]>>,
     groupOverrideDetails |-> <<>>]

\* lines 65-74, right-hand side: the dict literal
OverrideSection(co) ==
    [idTokenGeneration |->
        <<[claimsToAddOrOverride |-> <<co>>, claimsToSuppress |-> <<>>]>>,
     accessTokenGeneration |->
        <<[claimsToAddOrOverride |-> <<co>>,
           scopesToAdd |-> << <<>> >>, scopesToSuppress |-> << <<>> >>]>>,
     groupOverrideDetails |-> <<>>]

\* line 65, left-hand side: event["response"] raises KeyError when the key
\* is missing, and item assignment on None raises TypeError
WriteRaises(ev) ==
    IF ev.response = <<>> THEN TRUE ELSE IsNone(ev.response[1])

\* no section in the response: the key is missing or maps to None
HasNoSection(ev) ==
    IF ev.response[1].claimsAndScopeOverrideDetails = <<>> THEN TRUE
    ELSE IsNone(ev.response[1].claimsAndScopeOverrideDetails[1])

\* the section already in the response, {} when there is none
PriorSection(ev) ==
    IF HasNoSection(ev)
    THEN [idTokenGeneration |-> <<>>, accessTokenGeneration |-> <<>>,
          groupOverrideDetails |-> <<>>]
    ELSE ev.response[1].claimsAndScopeOverrideDetails[1]

PutSection(ev, section) ==
    [ev EXCEPT !.response =
        <<[ev.response[1] EXCEPT !.claimsAndScopeOverrideDetails = <<section>>]>>]

\* event["response"] = {"claimsAndScopeOverrideDetails": section}
WriteSectionNewResponse(ev, section) ==
    [ev EXCEPT !.response =
        <<[claimsAndScopeOverrideDetails |-> <<section>>, stage |-> <<>>]>>]

\* the roles appended to the roles an earlier call wrote on the identity token
WriteSectionAppend(ev, section) ==
    LET old == Get(Get(PriorSection(ev), "idTokenGeneration",
                       [claimsToAddOrOverride |-> <<>>, claimsToSuppress |-> <<>>]),
                   "claimsToAddOrOverride", EmptyClaims)["custom:roles"]
        new == section.idTokenGeneration[1].claimsToAddOrOverride[1]["custom:roles"]
    IN  IF old # <<>> /\ new # <<>>
        THEN PutSection(ev, OverrideSection(
                 [EmptyClaims EXCEPT !["custom:roles"] =
                     <<old[1] \o <<",">> \o new[1]>>]))
        ELSE PutSection(ev, section)

\* event["response"]["claimsAndScopeOverrideDetails"].update(section)
WriteSectionUpdate(ev, section) ==
    PutSection(ev, [k \in DOMAIN section |->
                      IF section[k] # <<>> THEN section[k] ELSE PriorSection(ev)[k]])

\* the scopes an earlier stage asked for are carried over
WriteSectionKeepScopes(ev, section) ==
    LET acc == PriorSection(ev).accessTokenGeneration
    IN  IF acc # <<>> /\ acc[1].scopesToAdd # <<>>
        THEN PutSection(ev, [section EXCEPT !.accessTokenGeneration =
                 <<[section.accessTokenGeneration[1] EXCEPT
                      !.scopesToAdd = acc[1].scopesToAdd]>>])
        ELSE PutSection(ev, section)

\* event["response"].setdefault("claimsAndScopeOverrideDetails", section)
WriteSectionSetDefault(ev, section) ==
    IF HasNoSection(ev)
    THEN PutSection(ev, section)
    ELSE ev

\* lines 65-74: event["response"]["claimsAndScopeOverrideDetails"] = {...}
WriteSection(ev, section) ==
    [ev EXCEPT !.response =
        <<[ev.response[1] EXCEPT !.claimsAndScopeOverrideDetails = <<section>>]>>]

\* lines 50-77 as one function of the event: whether the call raises, and the
\* event the caller holds afterwards
Handler(ev) ==
    IF ReadRaises(ev) THEN [raised |-> TRUE, event |-> ev]
    ELSE IF WriteRaises(ev) THEN [raised |-> TRUE, event |-> ev]
    ELSE [raised |-> FALSE,
          event  |-> WriteSection(ev,
                         OverrideSection(ClaimsOverride(RolesClaim(GroupsOf(ev)))))]

\* ------------------------------------------------------------------- state
VARIABLES
    event,           \* the event dict the caller passed; mutated in place
    event0,          \* its value when the current call started
    pc,              \* the line the current call is at
    status,          \* "running", "returned" or "raised"
    groups,          \* local of line 54
    roles_claim,     \* local of line 55
    claims_override, \* local of lines 60-62
    log,             \* the records given to logger.info
    calls,           \* number of calls made on this event
    prevSection      \* <<section>> the previous call left in the response

vars == <<event, event0, pc, status, groups, roles_claim, claims_override,
          log, calls, prevSection>>

Init ==
    /\ event \in Events
    /\ event0 = event
    /\ pc = "L50"
    /\ status = "running"
    /\ groups = <<>>
    /\ roles_claim = <<>>
    /\ claims_override = EmptyClaims
    /\ log = <<>>
    /\ calls = 1
    /\ prevSection = <<>>

\* lines 50-51
LogTrigger ==
    /\ pc = "L50"
    /\ log' = Append(log, [msg |-> "triggered",
                           arg |-> <<Get(event, "userName", "unknown")>>])
    /\ pc' = "L54"
    /\ UNCHANGED <<event, event0, status, groups, roles_claim, claims_override,
                   calls, prevSection>>

\* line 54
ReadGroups ==
    /\ pc = "L54"
    /\ ~ReadRaises(event)
    /\ groups' = GroupsOf(event)
    /\ pc' = "L55"
    /\ UNCHANGED <<event, event0, status, roles_claim, claims_override, log,
                   calls, prevSection>>

\* line 54, AttributeError
ReadGroupsRaises ==
    /\ pc = "L54"
    /\ ReadRaises(event)
    /\ status' = "raised"
    /\ pc' = "done"
    /\ UNCHANGED <<event, event0, groups, roles_claim, claims_override, log,
                   calls, prevSection>>

\* lines 55-57
JoinRoles ==
    /\ pc = "L55"
    /\ roles_claim' = RolesClaim(groups)
    /\ log' = Append(log, [msg |-> "groups", arg |-> roles_claim'])
    /\ pc' = "L60"
    /\ UNCHANGED <<event, event0, status, groups, claims_override, calls,
                   prevSection>>

\* lines 60-62
BuildClaims ==
    /\ pc = "L60"
    /\ claims_override' = ClaimsOverride(roles_claim)
    /\ pc' = "L65"
    /\ UNCHANGED <<event, event0, status, groups, roles_claim, log, calls,
                   prevSection>>

\* lines 65-74
WriteOverride ==
    /\ pc = "L65"
    /\ ~WriteRaises(event)
    /\ event' = WriteSection(event, OverrideSection(claims_override))
    /\ pc' = "L76"
    /\ UNCHANGED <<event0, status, groups, roles_claim, claims_override, log,
                   calls, prevSection>>

\* line 65, KeyError or TypeError
WriteOverrideRaises ==
    /\ pc = "L65"
    /\ WriteRaises(event)
    /\ status' = "raised"
    /\ pc' = "done"
    /\ UNCHANGED <<event, event0, groups, roles_claim, claims_override, log,
                   calls, prevSection>>

\* lines 76-77
Return ==
    /\ pc = "L76"
    /\ log' = Append(log, [msg |-> "enriched", arg |-> <<>>])
    /\ status' = "returned"
    /\ pc' = "done"
    /\ UNCHANGED <<event, event0, groups, roles_claim, claims_override, calls,
                   prevSection>>

\* the caller hands the returned event to lambda_handler again (line 21)
Reinvoke ==
    /\ pc = "done"
    /\ status = "returned"
    /\ calls < MaxCalls
    /\ calls' = calls + 1
    /\ prevSection' = event.response[1].claimsAndScopeOverrideDetails
    /\ event0' = event
    /\ pc' = "L50"
    /\ status' = "running"
    /\ groups' = <<>>
    /\ roles_claim' = <<>>
    /\ claims_override' = EmptyClaims
    /\ UNCHANGED <<event, log>>

Next ==
    \/ LogTrigger
    \/ ReadGroups
    \/ ReadGroupsRaises
    \/ JoinRoles
    \/ BuildClaims
    \/ WriteOverride
    \/ WriteOverrideRaises
    \/ Return
    \/ Reinvoke

Spec == Init /\ [][Next]_vars

\* ----------------------------------------------------------------- helpers
Returned == pc = "done" /\ status = "returned"

Raised == pc = "done" /\ status = "raised"

Section(ev) == ev.response[1].claimsAndScopeOverrideDetails[1]

IdClaims(ev) == Section(ev).idTokenGeneration[1].claimsToAddOrOverride[1]

AccessClaims(ev) == Section(ev).accessTokenGeneration[1].claimsToAddOrOverride[1]

\* the step-by-step run and the function agree
StepsMatchHandler ==
    pc = "done" => /\ Handler(event0).raised = (status = "raised")
                   /\ Handler(event0).event = event

\* the group sequence the current call was given
InputGroups == GroupsOf(event0)

\* the section the current call was given, as <<>>, <<None>> or <<section>>
InputSection == event0.response[1].claimsAndScopeOverrideDetails

\* number of characters of the comma-join of g that precede element i
RECURSIVE Start(_, _)
Start(g, i) == IF i = 1 THEN 0 ELSE Start(g, i - 1) + Len(g[i - 1]) + 1

\* s is the elements of g in order, each one whole, with exactly one ","
\* between consecutive elements and nothing else
IsCommaJoin(s, g) ==
    /\ Len(g) > 0
    /\ Len(s) = Start(g, Len(g)) + Len(g[Len(g)])
    /\ \A i \in 1..Len(g) :
         SubSeq(s, Start(g, i) + 1, Start(g, i) + Len(g[i])) = g[i]
    /\ \A i \in 2..Len(g) : s[Start(g, i)] = ","

HasRoles(claims, g) ==
    IF claims["custom:roles"] = <<>> THEN FALSE
    ELSE IsCommaJoin(claims["custom:roles"][1], g)

\* ------------------------------------------------------------------ claims
\* C1 (as stated): for every group sequence g with len(g) > 0, [""] included,
\* the call sets custom:roles on both tokens to the comma-join of g, in
\* order, duplicates retained.
C1_RolesForEveryNonEmptyList ==
    (Returned /\ Len(InputGroups) > 0)
        => /\ HasRoles(IdClaims(event), InputGroups)
           /\ HasRoles(AccessClaims(event), InputGroups)

\* C1 (amended): for every group sequence g with len(g) > 0 other than [""],
\* the call sets custom:roles on both tokens to the comma-join of g, in
\* order, duplicates retained; for [""], whose comma-join is the empty
\* string, the custom:roles key is omitted.
C1_RolesForNonEmptyJoin ==
    /\ (Returned /\ Len(InputGroups) > 0 /\ InputGroups # << <<>> >>)
          => /\ HasRoles(IdClaims(event), InputGroups)
             /\ HasRoles(AccessClaims(event), InputGroups)
    /\ (Returned /\ InputGroups = << <<>> >>)
          => /\ IdClaims(event)["custom:roles"] = <<>>
             /\ AccessClaims(event)["custom:roles"] = <<>>

C1_Witness ==
    /\ Returned
    /\ InputGroups = << <<"B">>, <<"B">> >>
    /\ IdClaims(event)["custom:roles"] = << <<"B", ",", "B">> >>

\* every section of ev that the call traverses is a mapping or is missing
SectionsPresentOrAbsent(ev) ==
    /\ ~ReadRaises(ev)
    /\ IF ev.response = <<>> THEN TRUE ELSE ~IsNone(ev.response[1])

\* C2: for every event whose request, groupConfiguration, groupsToOverride
\* and response sections are each present or absent, the call returns the
\* event and raises no error.
C2_NeverRaises ==
    (pc = "done" /\ SectionsPresentOrAbsent(event0)) => status = "returned"

\* the group sequence is empty, or a section on the way to it is missing
NoGroups(ev) ==
    IF ev.request = <<>> THEN TRUE
    ELSE IF ev.request[1].groupConfiguration = <<>> THEN TRUE
    ELSE IF ev.request[1].groupConfiguration[1].groupsToOverride = <<>> THEN TRUE
    ELSE ev.request[1].groupConfiguration[1].groupsToOverride[1] = <<>>

\* C3: when the group sequence is empty, or request, groupConfiguration or
\* groupsToOverride is missing, both tokens get the empty claims mapping:
\* no custom:roles key, not even with the empty string.
C3_NoGroupsNoClaim ==
    (Returned /\ NoGroups(event0))
        => /\ IdClaims(event) = EmptyClaims
           /\ AccessClaims(event) = EmptyClaims

C3_Witness ==
    /\ Returned
    /\ calls = 1
    /\ event0.request = <<>>
    /\ InputSection = <<StageDetails>>
    /\ IdClaims(event) = EmptyClaims

\* C4: userName, the whole request section and every other key of response
\* have the same value in the returned event as in the event passed in.
C4_FrameUnchanged ==
    Returned => /\ event.userName = event0.userName
                /\ event.request = event0.request
                /\ event.response[1].stage = event0.response[1].stage

C4_Witness ==
    /\ Returned
    /\ event.userName = <<"alice">>
    /\ event.response[1].stage = <<"stage1">>
    /\ event.request # <<>>
    /\ event.response[1].claimsAndScopeOverrideDetails # InputSection

\* the section holds its four fields
FullSection(sec) ==
    /\ sec.idTokenGeneration # <<>>
    /\ sec.idTokenGeneration[1].claimsToAddOrOverride # <<>>
    /\ sec.accessTokenGeneration # <<>>
    /\ sec.accessTokenGeneration[1].claimsToAddOrOverride # <<>>
    /\ sec.accessTokenGeneration[1].scopesToAdd # <<>>
    /\ sec.accessTokenGeneration[1].scopesToSuppress # <<>>

\* C5: a call that raises leaves the event exactly as it was passed in, and
\* so does a call that has not yet reached its write; a call that returns
\* leaves a section that holds all four fields.
C5_NoPartialResult ==
    /\ status = "raised" => event = event0
    /\ pc \in {"L50", "L54", "L55", "L60", "L65"} => event = event0
    /\ Returned => FullSection(Section(event))

C5_Witness ==
    /\ Raised
    /\ event0.response = <<>>
    /\ claims_override["custom:roles"] # <<>>
    /\ event = event0

\* C6: in the returned event the claims mapping of the identity token equals
\* the claims mapping of the access token.
C6_SameClaimsOnBothTokens ==
    Returned => IdClaims(event) = AccessClaims(event)

C6_Witness ==
    /\ Returned
    /\ calls = 1
    /\ InputSection = <<StageDetails>>
    /\ IdClaims(event)["custom:roles"] # <<>>
    /\ IdClaims(event) = AccessClaims(event)

\* C7: a call on the event an earlier call returned leaves the same section
\* as the earlier call left.
C7_Idempotent ==
    (Returned /\ calls >= 2)
        => event.response[1].claimsAndScopeOverrideDetails = prevSection

C7_Witness ==
    /\ Returned
    /\ calls = 2
    /\ IdClaims(event)["custom:roles"] # <<>>
    /\ prevSection = <<Section(event)>>

\* the claims mapping holds what the groups g give and nothing else
OnlyRolesOf(claims, g) ==
    /\ claims["custom:tenant"] = <<>>
    /\ IF Len(g) > 0 /\ g # << <<>> >> THEN HasRoles(claims, g)
       ELSE claims["custom:roles"] = <<>>

\* C8: after the call the section holds idTokenGeneration and
\* accessTokenGeneration built from the current groups and nothing that was
\* in the section before the call.
C8_WholesaleReplace ==
    Returned =>
        /\ Section(event).groupOverrideDetails = <<>>
        /\ Section(event).idTokenGeneration # <<>>
        /\ Section(event).idTokenGeneration[1].claimsToSuppress = <<>>
        /\ Section(event).accessTokenGeneration # <<>>
        /\ OnlyRolesOf(IdClaims(event), InputGroups)
        /\ OnlyRolesOf(AccessClaims(event), InputGroups)

C8_Witness ==
    /\ Returned
    /\ calls = 1
    /\ InputSection = <<StageDetails>>
    /\ InputGroups = << <<"A">> >>
    /\ Section(event).groupOverrideDetails = <<>>

\* C9: in the returned event scopesToAdd and scopesToSuppress of the access
\* token are both the empty sequence.
C9_ScopesEmpty ==
    Returned =>
        /\ Section(event).accessTokenGeneration[1].scopesToAdd = << <<>> >>
        /\ Section(event).accessTokenGeneration[1].scopesToSuppress = << <<>> >>

C9_Witness ==
    /\ Returned
    /\ calls = 1
    /\ InputSection = <<StageDetails>>
    /\ event0.request # <<>>
    /\ event0.request[1].scopes # <<>>
    /\ Section(event).accessTokenGeneration[1].scopesToAdd = << <<>> >>

\* e carries the group sequence g and the call on e returns
ReturnsWithGroups(e, g) ==
    IF Handler(e).raised THEN FALSE ELSE GroupsOf(e) = g

\* C10: every event that carries the same group sequence as the event of
\* this call gets the same section, whatever its userName, its other
\* request fields and its prior response.
C10_SectionDependsOnGroupsOnly ==
    Returned =>
        \A e \in Events :
            ReturnsWithGroups(e, InputGroups)
                => Section(Handler(e).event) = Section(event)

C10_Witness ==
    /\ Returned
    /\ calls = 1
    /\ event0.userName = <<"alice">>
    /\ InputSection = <<StageDetails>>
    /\ InputGroups = << <<"A">>, <<"B">> >>
    /\ \E e \in Events :
         /\ ReturnsWithGroups(e, InputGroups)
         /\ e.userName # event0.userName
         /\ e.request # event0.request
         /\ e.response # event0.response
         /\ Section(Handler(e).event) = Section(event)

====
